---- MODULE Spec2Model ----
(***************************************************************************)
(* Model of the mcp-i18n extractor (src/src/index.ts): the extract_i18n    *)
(* tool handler, the extraction of a mapping from a parsed source file,    *)
(* and the deep merge of that mapping into the catalog on disk.            *)
(*                                                                         *)
(* Every JavaScript value and every syntax node is a record [k, v]: k is   *)
(* the kind (typeof / node.type) and v the payload.                        *)
(***************************************************************************)
EXTENDS Integers, Sequences, FiniteSets, TLC

(***************************************************************************)
(* JavaScript values.  An object is a function from its own enumerable     *)
(* string keys to values, an array a sequence.  A "promise" is the value   *)
(* an async function returns when the caller does not await it; v is the   *)
(* value it resolves to.                                                   *)
(***************************************************************************)
JsNull == [k |-> "null", v |-> "null"]
JsString(s) == [k |-> "string", v |-> s]
JsNumber(n) == [k |-> "number", v |-> n]
JsBoolean(b) == [k |-> "boolean", v |-> b]
JsObject(f) == [k |-> "object", v |-> f]
JsArray(s) == [k |-> "array", v |-> s]
JsPromise(x) == [k |-> "promise", v |-> x]
EmptyObject == JsObject(<<>>)

\* Object.keys(o)
ObjectKeys(o) == IF o.k = "object" THEN DOMAIN o.v ELSE {}

(***************************************************************************)
(* Syntax nodes (@babel/types).  Node kinds keep Babel's names.            *)
(***************************************************************************)
Hole == [k |-> "hole", v |-> "hole"]
StringLiteral(s) == [k |-> "StringLiteral", v |-> s]
TemplateLiteral(quasis) == [k |-> "TemplateLiteral", v |-> quasis]
NumericLiteral(n) == [k |-> "NumericLiteral", v |-> n]
BooleanLiteral(b) == [k |-> "BooleanLiteral", v |-> b]
NullLiteral == [k |-> "NullLiteral", v |-> "null"]
Identifier(name) == [k |-> "Identifier", v |-> name]
UnaryExpression(op, arg) == [k |-> "UnaryExpression", v |-> [operator |-> op, argument |-> arg]]
ObjectExpression(props) == [k |-> "ObjectExpression", v |-> props]
ArrayExpression(elems) == [k |-> "ArrayExpression", v |-> elems]
ObjectProperty(key, computed, value) ==
    [k |-> "ObjectProperty", v |-> [key |-> key, computed |-> computed, value |-> value]]
SpreadElement(arg) == [k |-> "SpreadElement", v |-> arg]
ObjectMethod(key) == [k |-> "ObjectMethod", v |-> key]
FunctionExpression == [k |-> "FunctionExpression", v |-> "fn"]
JSXElement == [k |-> "JSXElement", v |-> "jsx"]
MemberExpression(object, property) ==
    [k |-> "MemberExpression", v |-> [object |-> object, property |-> property]]
\* A call expression with what the visitors read of it: the callee, the
\* arguments and the parent node.  left is TRUE when the parent's left
\* operand is this very call (path.parent.left === path.node).
LogicalExpression(op, left, right) ==
    [k |-> "LogicalExpression", v |-> [operator |-> op, left |-> left, right |-> right]]
ConditionalExpression == [k |-> "ConditionalExpression", v |-> "cond"]
OtherParent == [k |-> "ExpressionStatement", v |-> "stmt"]
CallExpression(callee, args, parent) ==
    [k |-> "CallExpression", v |-> [callee |-> callee, arguments |-> args, parent |-> parent]]
VariableDeclarator(init) == [k |-> "VariableDeclarator", v |-> init]
ImportDefaultSpecifier == [k |-> "ImportDefaultSpecifier", v |-> "import"]
FunctionDeclaration == [k |-> "FunctionDeclaration", v |-> "function"]
\* The parsed file as the traversals see it: the call expressions in
\* traversal order, the export-default declarations in traversal order, and
\* the bindings of the program scope.
File(calls, exports, bindings) ==
    [k |-> "File", v |-> [calls |-> calls, exports |-> exports, bindings |-> bindings]]

\* Array.prototype.join on a sequence of strings
RECURSIVE Join(_, _)

\* join that returns the first string only
JoinFirstOnly(strs, sep) == IF Len(strs) = 0 THEN "" ELSE strs[1]

Join(strs, sep) ==
    IF Len(strs) = 0 THEN ""
    ELSE IF Len(strs) = 1 THEN strs[1]
    ELSE strs[1] \o sep \o Join(Tail(strs), sep)

(***************************************************************************)
(* processNodeValue / processPropertyInto                                  *)
(***************************************************************************)
RECURSIVE processNodeValue(_)
RECURSIVE processProperties(_, _)

\* processPropertyInto(prop, targetObject): the object after the call
processPropertyInto(prop, targetObject) ==
    LET keyNode == prop.v.key
        key == IF keyNode.k = "Identifier" THEN keyNode.v
               ELSE IF keyNode.k = "StringLiteral" THEN keyNode.v
               ELSE ""
        hasKey == keyNode.k \in {"Identifier", "StringLiteral"} /\ key # ""
        processedValue == processNodeValue(prop.v.value)
    IN  IF ~hasKey THEN targetObject
        ELSE IF processedValue # JsNull
             THEN [x \in (DOMAIN targetObject) \cup {key} |->
                      IF x = key THEN processedValue ELSE targetObject[x]]
             ELSE targetObject

\* node.properties.forEach(...) of the ObjectExpression branch
processProperties(props, objResult) ==
    IF Len(props) = 0 THEN objResult
    ELSE processProperties(Tail(props),
            IF Head(props).k = "ObjectProperty"
            THEN processPropertyInto(Head(props), objResult)
            ELSE objResult)

\* processNodeValue with forEach skipping the holes of a sparse array
processNodeValueSkippingHoles(node) ==
    IF node = Hole THEN JsNull
    ELSE IF node.k = "StringLiteral" THEN JsString(node.v)
    ELSE IF node.k = "TemplateLiteral" THEN JsString(Join(node.v, "{{}}"))
    ELSE IF node.k = "NumericLiteral" THEN JsNumber(node.v)
    ELSE IF node.k = "BooleanLiteral" THEN JsBoolean(node.v)
    ELSE IF node.k = "NullLiteral" THEN JsNull
    ELSE IF node.k = "ObjectExpression" THEN JsObject(processProperties(node.v, <<>>))
    ELSE IF node.k = "ArrayExpression"
         THEN LET elements == SelectSeq(node.v, LAMBDA element : element # Hole)
              IN  JsArray([i \in 1..Len(elements) |-> processNodeValue(elements[i])])
    ELSE JsNull

processNodeValue(node) ==
    IF node = Hole THEN JsNull
    ELSE IF node.k = "StringLiteral" THEN JsString(node.v)
    ELSE IF node.k = "TemplateLiteral" THEN JsString(Join(node.v, "{{}}"))
    ELSE IF node.k = "NumericLiteral" THEN JsNumber(node.v)
    ELSE IF node.k = "BooleanLiteral" THEN JsBoolean(node.v)
    ELSE IF node.k = "NullLiteral" THEN JsNull
    ELSE IF node.k = "ObjectExpression" THEN JsObject(processProperties(node.v, <<>>))
    ELSE IF node.k = "ArrayExpression"
         THEN JsArray([i \in 1..Len(node.v) |-> processNodeValue(node.v[i])])
    ELSE IF node.k = "Identifier" /\ node.v = "undefined" THEN JsNull
    ELSE IF /\ node.k = "UnaryExpression"
            /\ node.v.operator = "void"
            /\ node.v.argument = NumericLiteral(0) THEN JsNull
    ELSE JsNull

(***************************************************************************)
(* extractTranslationCalls                                                 *)
(***************************************************************************)
\* the test both visitors apply to a call: callee is the identifier `name`
\* and the first argument is a string literal
IsCallOf(call, name) ==
    /\ call.v.callee = Identifier(name)
    /\ Len(call.v.arguments) > 0
    /\ call.v.arguments[1].k = "StringLiteral"

\* first traversal: the namespace after visiting calls, starting from ns
\* ("" stands for null: a namespace of "" is falsy as well)
RECURSIVE namespacePass(_, _)

\* the namespace pass keeping the first namespace it meets
namespacePassFirst(calls, ns) ==
    IF Len(calls) = 0 THEN ns
    ELSE namespacePass(Tail(calls),
            IF IsCallOf(Head(calls), "useTranslations") /\ ns = ""
            THEN Head(calls).v.arguments[1].v ELSE ns)

namespacePass(calls, ns) ==
    IF Len(calls) = 0 THEN ns
    ELSE namespacePass(Tail(calls),
            IF IsCallOf(Head(calls), "useTranslations")
            THEN Head(calls).v.arguments[1].v ELSE ns)

\* the default value without the test that the call is the left operand
defaultValueOfEitherOperand(call) ==
    LET parent == call.v.parent
    IN  IF /\ parent.k = "LogicalExpression"
           /\ parent.v.operator = "||"
           /\ parent.v.right.k = "StringLiteral"
        THEN <<TRUE, parent.v.right.v>>
        ELSE <<FALSE, "">>

\* the default value the call pass recovers: <<found, text>>
defaultValueOf(call) ==
    LET parent == call.v.parent
    IN  IF /\ parent.k = "LogicalExpression"
           /\ parent.v.operator = "||"
           /\ parent.v.left
           /\ parent.v.right.k = "StringLiteral"
        THEN <<TRUE, parent.v.right.v>>
        ELSE <<FALSE, "">>

fullKeyOf(translationNamespace, key) ==
    IF translationNamespace # "" THEN translationNamespace \o "." \o key ELSE key

\* second traversal: the translations object after visiting calls
RECURSIVE callPass(_, _, _)

\* the call pass that leaves an entry alone when the call has no default
callPassKeepingDefault(calls, translationNamespace, translations) ==
    IF Len(calls) = 0 THEN translations
    ELSE LET call == Head(calls)
             fullKey == fullKeyOf(translationNamespace, call.v.arguments[1].v)
             dv == defaultValueOf(call)
         IN  callPass(Tail(calls), translationNamespace,
                 IF IsCallOf(call, "t") /\ (dv[1] \/ fullKey \notin DOMAIN translations)
                 THEN [x \in (DOMAIN translations) \cup {fullKey} |->
                          IF x = fullKey THEN JsString(dv[2]) ELSE translations[x]]
                 ELSE translations)

callPass(calls, translationNamespace, translations) ==
    IF Len(calls) = 0 THEN translations
    ELSE LET call == Head(calls)
             fullKey == fullKeyOf(translationNamespace, call.v.arguments[1].v)
             dv == defaultValueOf(call)
             value == IF dv[1] THEN JsString(dv[2]) ELSE JsString("")
         IN  callPass(Tail(calls), translationNamespace,
                 IF IsCallOf(call, "t")
                 THEN [x \in (DOMAIN translations) \cup {fullKey} |->
                          IF x = fullKey THEN value ELSE translations[x]]
                 ELSE translations)

extractTranslationCalls(ast) ==
    JsObject(callPass(ast.v.calls, namespacePass(ast.v.calls, ""), <<>>))

(***************************************************************************)
(* extractDataContent                                                      *)
(***************************************************************************)
\* the ExportDefaultDeclaration visitor over the declarations in traversal
\* order: the value of extractedData when the traversal ends
NoData == [k |-> "none", v |-> ""]      \* extractedData = null
RECURSIVE exportVisitor(_, _)

\* the visitor taking whatever the first default export is, under the key
\* "default"
exportVisitorWrapping(exports, bindings) ==
    IF Len(exports) = 0 THEN NoData
    ELSE JsObject([default |-> processNodeValue(Head(exports))])

exportVisitor(exports, bindings) ==
    IF Len(exports) = 0 THEN NoData
    ELSE LET declaration == Head(exports)
         IN  IF declaration.k = "ObjectExpression"
             THEN processNodeValue(declaration)          \* then path.stop()
             ELSE IF /\ declaration.k = "Identifier"
                     /\ declaration.v \in DOMAIN bindings
                     /\ bindings[declaration.v].k = "VariableDeclarator"
                     /\ bindings[declaration.v].v.k = "ObjectExpression"
                  THEN processNodeValue(bindings[declaration.v].v)  \* then path.stop()
                  ELSE exportVisitor(Tail(exports), bindings)

extractDataContentPreferExport(ast) ==
    LET extractedData == exportVisitor(ast.v.exports, ast.v.bindings)
    IN  IF extractedData # NoData /\ ObjectKeys(extractedData) # {}
        THEN extractedData
        ELSE extractTranslationCalls(ast)

extractDataContent(ast) ==
    LET translationCalls == extractTranslationCalls(ast)
        extractedData == exportVisitor(ast.v.exports, ast.v.bindings)
    IN  IF ObjectKeys(translationCalls) # {} THEN translationCalls
        ELSE IF extractedData # NoData THEN extractedData
        ELSE EmptyObject

(***************************************************************************)
(* mergeDeep                                                               *)
(***************************************************************************)
\* isObject of mergeDeep: a non-null object that is not an array
isObject(item) == item.k = "object"

RECURSIVE mergeDeep(_, _)

\* mergeDeep with output starting empty instead of as a copy of target
mergeDeepDropTarget(target, source) == source

\* mergeDeep without the `key in target` test: every object of source is
\* merged by a recursive call
mergeDeepAlwaysRecurse(target, source) ==
    IF isObject(target) /\ isObject(source)
    THEN JsObject([key \in (DOMAIN target.v) \cup (DOMAIN source.v) |->
            IF key \in DOMAIN source.v
            THEN IF isObject(source.v[key])
                 THEN JsPromise(source.v[key])
                 ELSE source.v[key]
            ELSE target.v[key]])
    ELSE source

\* mergeDeep assigning only the keys target lacks
mergeDeepKeepExisting(target, source) ==
    IF isObject(target) /\ isObject(source)
    THEN JsObject([key \in (DOMAIN target.v) \cup (DOMAIN source.v) |->
            IF key \in DOMAIN target.v THEN target.v[key] ELSE source.v[key]])
    ELSE source

\* The value the returned promise resolves to.  output starts as a copy of
\* target; the recursive call is not awaited, so output[key] holds the
\* promise itself.  (`key in target` also sees inherited names such as
\* "constructor"; the keys of the model are never such names.)
mergeDeep(target, source) ==
    IF isObject(target) /\ isObject(source)
    THEN JsObject([key \in (DOMAIN target.v) \cup (DOMAIN source.v) |->
            IF key \in DOMAIN source.v
            THEN IF isObject(source.v[key])
                 THEN IF key \notin DOMAIN target.v
                      THEN source.v[key]
                      ELSE JsPromise(mergeDeep(target.v[key], source.v[key]))
                 ELSE source.v[key]
            ELSE target.v[key]])
    ELSE source

(***************************************************************************)
(* JSON.stringify / JSON.parse.  A JSON document is written as the value   *)
(* it denotes; a promise has no own enumerable property and no toJSON, so  *)
(* it is serialized as {}.                                                 *)
(***************************************************************************)
RECURSIVE JSONstringify(_)
JSONstringify(value) ==
    IF value.k = "object"
    THEN JsObject([key \in DOMAIN value.v |-> JSONstringify(value.v[key])])
    ELSE IF value.k = "array"
    THEN JsArray([i \in 1..Len(value.v) |-> JSONstringify(value.v[i])])
    ELSE IF value.k = "promise" THEN EmptyObject
    ELSE value

(***************************************************************************)
(* File contents: [k, v] with k one of                                     *)
(*   "missing"  no such file                                               *)
(*   "source"   ECMAScript text, v the File node it parses to              *)
(*   "json"     JSON text, v the document                                  *)
(*   "marker"   the migration marker, v the absolute target path           *)
(*   "garbage"  text that is neither                                       *)
(***************************************************************************)
Missing == [k |-> "missing", v |-> ""]
Garbage == [k |-> "garbage", v |-> ""]
SourceText(ast) == [k |-> "source", v |-> ast]
JsonText(doc) == [k |-> "json", v |-> doc]

\* JSON.parse(text): <<TRUE, value>>, or <<FALSE, _>> for a SyntaxError
JSONparse(content) ==
    IF content.k = "json" THEN <<TRUE, content.v>> ELSE <<FALSE, JsNull>>

\* path.resolve and path.dirname on the relative paths of the model
pathResolve(p) == "/cwd/" \o p
pathDirname(p) == "."

\* `MIGRATED TO ${absoluteTargetPath}${WARNING_MESSAGE}`
MigrationMarker(targetPath) == [k |-> "marker", v |-> pathResolve(targetPath)]

EmptyFile == File(<<>>, <<>>, <<>>)
Throw == [k |-> "throw", v |-> ""]
\* parser.parse(sourceCode) with errorRecovery: the File node, or Throw.
\* What Babel makes of text that is not a module is left open: it throws or
\* recovers to a program without calls and exports.
ParseOutcomes(content) ==
    IF content.k = "source" THEN {content.v} ELSE {Throw, EmptyFile}

(***************************************************************************)
(* Inputs                                                                  *)
(***************************************************************************)
MaxRuns == 2                    \* invocations started in one behaviour

Paths == {"a.js", "b.js", "cat.json"}
ToolNames == {"extract_i18n", "extract_svg"}
EnvValues == {"unset", "true", "false"}  \* process.env.DISABLE_SOURCE_REPLACEMENT
Invocations == {"inv1", "inv2"}

Prop(name, value) == ObjectProperty(Identifier(name), FALSE, value)

\* what a key of an exported object literal may hold
IncomingNodes ==
    { NumericLiteral(2),
      ArrayExpression(<<NumericLiteral(3), NumericLiteral(4)>>),
      ObjectExpression(<<Prop("x", NumericLiteral(1))>>),
      ObjectExpression(<<Prop("y", NumericLiteral(2))>>) }

\* export default { a: ..., b: ... } with either key possibly left out
ExportedObjects ==
    { ObjectExpression(<<>>) }
    \cup { ObjectExpression(<<Prop("a", n)>>) : n \in IncomingNodes }
    \cup { ObjectExpression(<<Prop("b", n)>>) : n \in IncomingNodes }
    \cup { ObjectExpression(<<Prop("a", n), Prop("b", m)>>) :
              n \in IncomingNodes, m \in IncomingNodes }

TCall(key) == CallExpression(Identifier("t"), <<StringLiteral(key)>>, OtherParent)
TCallOr(key, text) ==
    CallExpression(Identifier("t"), <<StringLiteral(key)>>,
                   LogicalExpression("||", TRUE, StringLiteral(text)))
UseTranslations(ns) ==
    CallExpression(Identifier("useTranslations"), <<StringLiteral(ns)>>, OtherParent)

ExportedA == ObjectExpression(<<Prop("a", NumericLiteral(2))>>)

\* files with translation calls, with and without a default export
CallSources ==
    { File(<<UseTranslations("ns"), TCallOr("title", "Title"), TCall("plain")>>, <<>>, <<>>),
      File(<<TCall("a")>>, <<ExportedA>>, <<>>),
      File(<<UseTranslations("ns"), TCallOr("b", "B")>>,
           <<Identifier("data")>>, [data |-> VariableDeclarator(ExportedA)]),
      File(<<CallExpression(Identifier("t"), <<Identifier("k")>>, OtherParent)>>,
           <<ExportedA>>, <<>>) }

\* files whose default export is not an object literal
OtherSources ==
    { EmptyFile,
      File(<<>>, <<Identifier("data")>>, [data |-> VariableDeclarator(ExportedA)]),
      File(<<>>, <<Identifier("data")>>, [data |-> ImportDefaultSpecifier]),
      File(<<>>, <<ArrayExpression(<<StringLiteral("s")>>)>>, <<>>) }

Sources ==
    { File(<<>>, <<o>>, <<>>) : o \in ExportedObjects } \cup CallSources \cup OtherSources

\* what a key of the catalog on disk may hold
ExistingValues ==
    { JsNumber(1),
      JsArray(<<JsNumber(1), JsNumber(2)>>),
      JsObject([x |-> JsNumber(1)]) }

Catalogs ==
    { EmptyObject }
    \cup { JsObject([a |-> v]) : v \in ExistingValues }
    \cup { JsObject([b |-> v]) : v \in ExistingValues }
    \cup { JsObject([a |-> v, b |-> w]) : v \in ExistingValues, w \in ExistingValues }

InitialSourceFiles == { SourceText(s) : s \in Sources } \cup {Missing, Garbage}
InitialCatalogFiles ==
    { JsonText(c) : c \in Catalogs }
    \cup { Missing, Garbage, JsonText(JsArray(<<JsNumber(1)>>)) }

(***************************************************************************)
(* Inputs of the extraction alone: files of calls, of literals and of      *)
(* default exports                                                         *)
(***************************************************************************)
MaxCalls == 3                   \* call expressions in a file
MaxElems == 2                   \* elements of an array literal, properties of an object literal

\* the sequences over S of length 0..n
SeqsUpTo(S, n) == UNION { [1..m -> S] : m \in 0..n }

\* t('title') under the parents the call pass tells apart
TCallUnder(parent) == CallExpression(Identifier("t"), <<StringLiteral("title")>>, parent)

CallShapes ==
    { UseTranslations("ns"), UseTranslations("nav"), UseTranslations(""),
      TCall("title"),
      TCallOr("title", "Title"),
      TCallOr("save", "Save"),
      TCallUnder(LogicalExpression("||", FALSE, StringLiteral("Title"))),
      TCallUnder(LogicalExpression("&&", TRUE, StringLiteral("Title"))),
      TCallUnder(LogicalExpression("||", TRUE, Identifier("fallback"))),
      TCallUnder(ConditionalExpression) }

\* calls neither pass takes: i18n.t('title') || 'Title', t(k), useTranslations()
OtherCalls ==
    << CallExpression(MemberExpression("i18n", "t"), <<StringLiteral("title")>>,
                      LogicalExpression("||", TRUE, StringLiteral("Title"))),
       CallExpression(Identifier("t"), <<Identifier("k")>>, OtherParent),
       CallExpression(Identifier("useTranslations"), <<>>, OtherParent) >>

ScanSources ==
    { File(calls, <<>>, <<>>) : calls \in SeqsUpTo(CallShapes, MaxCalls) }
    \cup { File(OtherCalls \o <<call>>, <<>>, <<>>) : call \in CallShapes }

\* what an element of an array literal may be
Atoms ==
    { StringLiteral("a"), TemplateLiteral(<<"t ", "">>),
      NumericLiteral(1), BooleanLiteral(TRUE), NullLiteral,
      Identifier("undefined"), Identifier("x"),
      UnaryExpression("void", NumericLiteral(0)), UnaryExpression("-", NumericLiteral(1)),
      FunctionExpression, JSXElement,
      CallExpression(Identifier("f"), <<>>, OtherParent),
      SpreadElement(Identifier("xs")), Hole }
Inner ==
    { ArrayExpression(<<StringLiteral("c"), StringLiteral("d")>>),
      ObjectExpression(<<Prop("b", NumericLiteral(1))>>) }
ArrayLiterals == { ArrayExpression(elems) : elems \in SeqsUpTo(Atoms \cup Inner, MaxElems) }

\* [ "a", {b:1}, "t {{x}}", null, ["c","d"], undefined, void 0 ], and the
\* same with the template literal `t ${x}` third
ArrayExample(third) ==
    ArrayExpression(<<StringLiteral("a"), ObjectExpression(<<Prop("b", NumericLiteral(1))>>),
                      third, NullLiteral,
                      ArrayExpression(<<StringLiteral("c"), StringLiteral("d")>>),
                      Identifier("undefined"), UnaryExpression("void", NumericLiteral(0))>>)

\* what a member of an object literal may be
PropertyKeys ==
    { <<Identifier("a"), FALSE>>, <<StringLiteral("b"), FALSE>>, <<StringLiteral(""), FALSE>>,
      <<NumericLiteral(1), FALSE>>, <<Identifier("c"), TRUE>> }
PropertyValues ==
    { StringLiteral("s"), NullLiteral, ObjectExpression(<<SpreadElement(Identifier("rest"))>>) }
Members ==
    { ObjectProperty(key[1], key[2], value) : key \in PropertyKeys, value \in PropertyValues }
    \cup { SpreadElement(Identifier("rest")), ObjectMethod(Identifier("m")) }
ObjectLiterals == { ObjectExpression(props) : props \in SeqsUpTo(Members, MaxElems) }

LiteralSources ==
    { File(<<>>, <<ObjectExpression(<<Prop("items", a)>>)>>, <<>>) :
         a \in ArrayLiterals \cup { ArrayExample(StringLiteral("t {{x}}")),
                                    ArrayExample(TemplateLiteral(<<"t ", "">>)) } }
    \cup { File(<<>>, <<o>>, <<>>) : o \in ObjectLiterals }

\* what `export default` may name, and what the name may be bound to
Declarations ==
    { ExportedA, ArrayExpression(<<StringLiteral("s")>>), StringLiteral("s"),
      CallExpression(Identifier("f"), <<>>, OtherParent),
      Identifier("data"), Identifier("config") }
Bindings ==
    { VariableDeclarator(ExportedA),
      VariableDeclarator(ArrayExpression(<<StringLiteral("s")>>)),
      VariableDeclarator(StringLiteral("s")),
      VariableDeclarator(Identifier("config")),
      VariableDeclarator(Hole),
      ImportDefaultSpecifier, FunctionDeclaration }
Scopes == { <<>> } \cup { [data |-> b] : b \in Bindings }
ExportSources ==
    { File(<<>>, exports, bindings) :
         exports \in { <<d>> : d \in Declarations }
                     \cup { <<d, ExportedA>> : d \in Declarations },
         bindings \in Scopes }

ExtractSources == ScanSources \cup LiteralSources \cup ExportSources

(***************************************************************************)
(* State                                                                   *)
(***************************************************************************)
VARIABLES
    files,            \* the file system: path -> content
    env,              \* process.env.DISABLE_SOURCE_REPLACEMENT
    runs,             \* invocations started so far
    pc,               \* per invocation: where the handler is
    request,          \* per invocation: request.params (name and arguments)
    dataContent,      \* per invocation: the local dataContent
    existingContent,  \* per invocation: the local existingContent
    mergedContent,    \* per invocation: the local mergedContent
    result,           \* per invocation: the result returned
    before,           \* per invocation: the file system when it was called
    writes            \* per invocation: the paths it wrote, in order

vars == <<files, env, runs, pc, request, dataContent, existingContent,
          mergedContent, result, before, writes>>

Undefined == [k |-> "undefined", v |-> ""]
NoRequest == [name |-> "", sourcePath |-> "", targetPath |-> ""]
NoMessage == <<"", "", "">>
NoResult ==
    [kind |-> "none", source |-> "", target |-> "", count |-> 0,
     replaced |-> FALSE, message |-> NoMessage]

\* `No data extracted from ${sourcePath}. Target file ${targetPath} not modified.`
NoDataResult(req) ==
    [NoResult EXCEPT !.kind = "nodata", !.source = req.sourcePath, !.target = req.targetPath]
\* `Invalid tool name: ${request.params.name}`
InvalidToolResult(req) ==
    [NoResult EXCEPT !.kind = "invalid", !.message = <<req.name, "", "">>]
\* the error text naming the target path instead of the source path
ErrorResultNamingTarget(req, message) ==
    [NoResult EXCEPT !.kind = "error", !.source = req.targetPath, !.message = message]

\* `Error processing ${sourcePath}: ${err.message}`; the message of an I/O
\* error is <<code, syscall, path>>
ErrorResult(req, message) ==
    [NoResult EXCEPT !.kind = "error", !.source = req.sourcePath, !.message = message]
\* `Successfully merged ${n} top-level entries to ${path.resolve(targetPath)}` and,
\* unless disabled, `. Source file replaced with "MIGRATED TO ..."`
SuccessResult(req, data, disableSourceReplacement) ==
    [NoResult EXCEPT !.kind = "success", !.target = pathResolve(req.targetPath),
                     !.count = Cardinality(ObjectKeys(data)),
                     !.replaced = ~disableSourceReplacement]

NoFiles == [p \in Paths |-> Missing]

Init ==
    /\ files \in { [p \in Paths |-> IF p = "a.js" THEN s
                                      ELSE IF p = "cat.json" THEN c ELSE Missing] :
                      s \in InitialSourceFiles, c \in InitialCatalogFiles }
    /\ env = "unset"
    /\ runs = 0
    /\ pc = [i \in Invocations |-> "idle"]
    /\ request = [i \in Invocations |-> NoRequest]
    /\ dataContent = [i \in Invocations |-> Undefined]
    /\ existingContent = [i \in Invocations |-> Undefined]
    /\ mergedContent = [i \in Invocations |-> Undefined]
    /\ result = [i \in Invocations |-> NoResult]
    /\ before = [i \in Invocations |-> NoFiles]
    /\ writes = [i \in Invocations |-> <<>>]

(***************************************************************************)
(* The CallToolRequestSchema handler, one action per I/O step.  Each       *)
(* action is the code from one await of the file system to the next.       *)
(*                                                                         *)
(* Faults of the file system: readFile(sourcePath) fails with ENOENT when  *)
(* the file is missing and may fail with EACCES when it is there; mkdir    *)
(* and both writeFile calls may fail with EACCES; readFile(targetPath)     *)
(* fails only with ENOENT, and JSON.parse throws on text that is not JSON. *)
(* sourcePath and targetPath may name the same file.                       *)
(***************************************************************************)
\* the handler returns res
Return(i, res) ==
    /\ pc' = [pc EXCEPT ![i] = "done"]
    /\ result' = [result EXCEPT ![i] = res]

\* a request arrives and the handler starts
Call(i, name, sourcePath, targetPath) ==
    /\ pc[i] = "idle"
    /\ runs < MaxRuns
    /\ runs' = runs + 1
    /\ pc' = [pc EXCEPT ![i] = "readSource"]
    /\ request' = [request EXCEPT ![i] =
          [name |-> name, sourcePath |-> sourcePath, targetPath |-> targetPath]]
    /\ result' = [result EXCEPT ![i] = NoResult]
    /\ before' = [before EXCEPT ![i] = files]
    /\ writes' = [writes EXCEPT ![i] = <<>>]
    /\ UNCHANGED <<files, env, dataContent, existingContent, mergedContent>>

\* Object.keys(dataContent).length === 0, never true
IsEmptyExtractionNever(data) == FALSE

\* Object.keys(dataContent).length === 0
IsEmptyExtraction(data) == ObjectKeys(data) = {}

\* fs.readFile(sourcePath), the tool name test, extractDataContent and the
\* test for an empty result
ReadSource(i) ==
    /\ pc[i] = "readSource"
    /\ LET req == request[i]
           content == files[req.sourcePath]
       IN  \/ /\ content.k = "missing"
              /\ Return(i, ErrorResult(req, <<"ENOENT", "open", req.sourcePath>>))
              /\ UNCHANGED dataContent
           \/ /\ content.k # "missing"
              /\ Return(i, ErrorResult(req, <<"EACCES", "open", req.sourcePath>>))
              /\ UNCHANGED dataContent
           \/ /\ content.k # "missing"
              /\ req.name # "extract_i18n"
              /\ Return(i, InvalidToolResult(req))
              /\ UNCHANGED dataContent
           \/ /\ content.k # "missing"
              /\ req.name = "extract_i18n"
              /\ \E ast \in ParseOutcomes(content) :
                    IF ast = Throw
                    THEN /\ Return(i, ErrorResult(req, <<"SyntaxError", "parse", "">>))
                         /\ UNCHANGED dataContent
                    ELSE LET data == extractDataContent(ast)
                         IN  IF IsEmptyExtraction(data)
                             THEN /\ Return(i, NoDataResult(req))
                                  /\ UNCHANGED dataContent
                             ELSE /\ dataContent' = [dataContent EXCEPT ![i] = data]
                                  /\ pc' = [pc EXCEPT ![i] = "mkdir"]
                                  /\ UNCHANGED result
    /\ UNCHANGED <<files, env, runs, request, existingContent, mergedContent, before, writes>>

\* fs.mkdir(path.dirname(targetPath), { recursive: true })
Mkdir(i) ==
    /\ pc[i] = "mkdir"
    /\ \/ /\ pc' = [pc EXCEPT ![i] = "readTarget"]
          /\ UNCHANGED result
       \/ Return(i, ErrorResult(request[i],
                    <<"EACCES", "mkdir", pathDirname(request[i].targetPath)>>))
    /\ UNCHANGED <<files, env, runs, request, dataContent, existingContent,
                   mergedContent, before, writes>>

\* existingContent after the inner try/catch: the parsed document, or {} when
\* readFile fails with ENOENT or JSON.parse throws
LoadExisting(content) ==
    IF content.k = "missing" THEN EmptyObject
    ELSE IF JSONparse(content)[1] THEN JSONparse(content)[2]
    ELSE EmptyObject

\* fs.readFile(targetPath), JSON.parse and mergeDeep
ReadTarget(i) ==
    /\ pc[i] = "readTarget"
    /\ LET existing == LoadExisting(files[request[i].targetPath])
       IN  /\ existingContent' = [existingContent EXCEPT ![i] = existing]
           /\ mergedContent' = [mergedContent EXCEPT ![i] =
                                   mergeDeep(existing, dataContent[i])]
    /\ pc' = [pc EXCEPT ![i] = "writeTarget"]
    /\ UNCHANGED <<files, env, runs, request, dataContent, result, before, writes>>

\* the write preceded by a fresh read of the catalog and a fresh merge
WriteTargetRereading(i) ==
    /\ pc[i] = "writeTarget"
    /\ \/ /\ files' = [files EXCEPT ![request[i].targetPath] =
                          JsonText(JSONstringify(
                             mergeDeep(LoadExisting(files[request[i].targetPath]),
                                       dataContent[i])))]
          /\ writes' = [writes EXCEPT ![i] = Append(@, request[i].targetPath)]
          /\ pc' = [pc EXCEPT ![i] = "replaceSource"]
          /\ UNCHANGED result
       \/ /\ Return(i, ErrorResult(request[i], <<"EACCES", "open", request[i].targetPath>>))
          /\ UNCHANGED <<files, writes>>
    /\ UNCHANGED <<env, runs, request, dataContent, existingContent, mergedContent, before>>

\* the write whose failure is swallowed: the handler goes on to the source
WriteTargetIgnoringFailure(i) ==
    /\ pc[i] = "writeTarget"
    /\ \/ /\ files' = [files EXCEPT ![request[i].targetPath] =
                          JsonText(JSONstringify(mergedContent[i]))]
          /\ writes' = [writes EXCEPT ![i] = Append(@, request[i].targetPath)]
       \/ UNCHANGED <<files, writes>>
    /\ pc' = [pc EXCEPT ![i] = "replaceSource"]
    /\ UNCHANGED <<env, runs, request, dataContent, existingContent, mergedContent,
                   result, before>>

\* fs.writeFile(targetPath, JSON.stringify(mergedContent, null, 2))
WriteTarget(i) ==
    /\ pc[i] = "writeTarget"
    /\ \/ /\ files' = [files EXCEPT ![request[i].targetPath] =
                          JsonText(JSONstringify(mergedContent[i]))]
          /\ writes' = [writes EXCEPT ![i] = Append(@, request[i].targetPath)]
          /\ pc' = [pc EXCEPT ![i] = "replaceSource"]
          /\ UNCHANGED result
       \/ /\ Return(i, ErrorResult(request[i], <<"EACCES", "open", request[i].targetPath>>))
          /\ UNCHANGED <<files, writes>>
    /\ UNCHANGED <<env, runs, request, dataContent, existingContent, mergedContent, before>>

\* the environment variable compared with 'TRUE'
SourceReplacementDisabledUpperCase(value) == value = "TRUE"

\* process.env.DISABLE_SOURCE_REPLACEMENT === 'true'
SourceReplacementDisabled(value) == value = "true"

\* the test of the environment, fs.writeFile(sourcePath, marker) and the
\* success message
ReplaceSource(i) ==
    /\ pc[i] = "replaceSource"
    /\ LET req == request[i]
           disableSourceReplacement == SourceReplacementDisabled(env)
       IN  \/ /\ disableSourceReplacement
              /\ Return(i, SuccessResult(req, dataContent[i], TRUE))
              /\ UNCHANGED <<files, writes>>
           \/ /\ ~disableSourceReplacement
              /\ files' = [files EXCEPT ![req.sourcePath] = MigrationMarker(req.targetPath)]
              /\ writes' = [writes EXCEPT ![i] = Append(@, req.sourcePath)]
              /\ Return(i, SuccessResult(req, dataContent[i], FALSE))
           \/ /\ ~disableSourceReplacement
              /\ Return(i, ErrorResult(req, <<"EACCES", "open", req.sourcePath>>))
              /\ UNCHANGED <<files, writes>>
    /\ UNCHANGED <<env, runs, request, dataContent, existingContent, mergedContent, before>>

\* the result has been delivered; the invocation's locals are gone
Finish(i) ==
    /\ pc[i] = "done"
    /\ pc' = [pc EXCEPT ![i] = "idle"]
    /\ request' = [request EXCEPT ![i] = NoRequest]
    /\ dataContent' = [dataContent EXCEPT ![i] = Undefined]
    /\ existingContent' = [existingContent EXCEPT ![i] = Undefined]
    /\ mergedContent' = [mergedContent EXCEPT ![i] = Undefined]
    /\ result' = [result EXCEPT ![i] = NoResult]
    /\ before' = [before EXCEPT ![i] = NoFiles]
    /\ writes' = [writes EXCEPT ![i] = <<>>]
    /\ UNCHANGED <<files, env, runs>>

\* the environment variable is set or unset between invocations
SetEnv(value) ==
    /\ \A i \in Invocations : pc[i] = "idle"
    /\ runs < MaxRuns
    /\ value # env
    /\ env' = value
    /\ UNCHANGED <<files, runs, pc, request, dataContent, existingContent,
                   mergedContent, result, before, writes>>

\* one client that awaits each result before its next request
Next ==
    \/ \E name \in ToolNames, sourcePath \in Paths, targetPath \in Paths :
          Call("inv1", name, sourcePath, targetPath)
    \/ ReadSource("inv1")
    \/ Mkdir("inv1")
    \/ ReadTarget("inv1")
    \/ WriteTarget("inv1")
    \/ ReplaceSource("inv1")
    \/ Finish("inv1")
    \/ \E value \in EnvValues : SetEnv(value)

Spec == Init /\ [][Next]_vars

\* one client extracting one file into a catalog that is not there yet
InitExtract ==
    /\ files \in { [p \in Paths |-> IF p = "a.js" THEN SourceText(s) ELSE Missing] :
                      s \in ExtractSources }
    /\ env = "unset"
    /\ runs = 0
    /\ pc = [i \in Invocations |-> "idle"]
    /\ request = [i \in Invocations |-> NoRequest]
    /\ dataContent = [i \in Invocations |-> Undefined]
    /\ existingContent = [i \in Invocations |-> Undefined]
    /\ mergedContent = [i \in Invocations |-> Undefined]
    /\ result = [i \in Invocations |-> NoResult]
    /\ before = [i \in Invocations |-> NoFiles]
    /\ writes = [i \in Invocations |-> <<>>]

NextExtract ==
    \/ Call("inv1", "extract_i18n", "a.js", "cat.json")
    \/ ReadSource("inv1")
    \/ Mkdir("inv1")
    \/ ReadTarget("inv1")
    \/ WriteTarget("inv1")
    \/ ReplaceSource("inv1")
    \/ Finish("inv1")

SpecExtract == InitExtract /\ [][NextExtract]_vars

\* Two clients, or one client that does not await, extracting two source
\* files into one catalog: the handler is an async function, and a second
\* invocation starts and runs between the awaits of the first.
SourcePaths == {"a.js", "b.js"}
ExportedB == ObjectExpression(<<Prop("b", NumericLiteral(2))>>)
InitConc ==
    /\ files \in { [p \in Paths |-> IF p = "a.js" THEN SourceText(s)
                                      ELSE IF p = "b.js" THEN SourceText(u) ELSE c] :
                      s \in { File(<<>>, <<ExportedA>>, <<>>),
                              File(<<TCallOr("title", "Title")>>, <<>>, <<>>) },
                      u \in { File(<<>>, <<ExportedB>>, <<>>),
                              File(<<>>, <<ObjectExpression(<<Prop("a", NumericLiteral(3))>>)>>, <<>>) },
                      c \in { Missing, Garbage, JsonText(JsObject([c |-> JsNumber(1)])) } }
    /\ env = "unset"
    /\ runs = 0
    /\ pc = [i \in Invocations |-> "idle"]
    /\ request = [i \in Invocations |-> NoRequest]
    /\ dataContent = [i \in Invocations |-> Undefined]
    /\ existingContent = [i \in Invocations |-> Undefined]
    /\ mergedContent = [i \in Invocations |-> Undefined]
    /\ result = [i \in Invocations |-> NoResult]
    /\ before = [i \in Invocations |-> NoFiles]
    /\ writes = [i \in Invocations |-> <<>>]

NextConc ==
    \/ \E i \in Invocations, sourcePath \in SourcePaths :
          Call(i, "extract_i18n", sourcePath, "cat.json")
    \/ \E i \in Invocations : ReadSource(i)
    \/ \E i \in Invocations : Mkdir(i)
    \/ \E i \in Invocations : ReadTarget(i)
    \/ \E i \in Invocations : WriteTarget(i)
    \/ \E i \in Invocations : ReplaceSource(i)
    \/ \E i \in Invocations : Finish(i)
    \/ \E value \in EnvValues : SetEnv(value)

SpecConc == InitConc /\ [][NextConc]_vars

\* the same two source files and catalog, one invocation after the other
SpecSeq == InitConc /\ [][Next]_vars

(***************************************************************************)
(* The handler getCallToolHandler returns, the one the tests call: the     *)
(* same steps, translated from its own text.  It runs as invocation        *)
(* "inv2", the registered handler as "inv1", one request at a time.        *)
(***************************************************************************)
\* `No data extracted from ${sourcePath}. Target file ${targetPath} not modified.`
DirectNoDataResult(req) ==
    [NoResult EXCEPT !.kind = "nodata", !.source = req.sourcePath, !.target = req.targetPath]

\* `Invalid tool name: ${request.params.name}`
DirectInvalidToolResult(req) ==
    [NoResult EXCEPT !.kind = "invalid", !.message = <<req.name, "", "">>]

\* `Error processing ${sourcePath}: ${err.message}`
DirectErrorResult(req, message) ==
    [NoResult EXCEPT !.kind = "error", !.source = req.sourcePath, !.message = message]

\* `Successfully merged ${n} top-level entries to ${path.resolve(targetPath)}` and,
\* unless disabled, `. Source file replaced with "MIGRATED TO ..."`
DirectSuccessResult(req, data, disableSourceReplacement) ==
    [NoResult EXCEPT !.kind = "success", !.target = pathResolve(req.targetPath),
                     !.count = Cardinality(ObjectKeys(data)),
                     !.replaced = ~disableSourceReplacement]

\* the handler returns res
DirectReturn(i, res) ==
    /\ pc' = [pc EXCEPT ![i] = "done"]
    /\ result' = [result EXCEPT ![i] = res]

\* Object.keys(dataContent).length === 0
DirectIsEmptyExtraction(data) == ObjectKeys(data) = {}

\* fs.readFile(sourcePath), the tool name test, extractDataContent and the
\* test for an empty result
DirectReadSource(i) ==
    /\ pc[i] = "readSource"
    /\ LET req == request[i]
           content == files[req.sourcePath]
       IN  \/ /\ content.k = "missing"
              /\ DirectReturn(i, DirectErrorResult(req, <<"ENOENT", "open", req.sourcePath>>))
              /\ UNCHANGED dataContent
           \/ /\ content.k # "missing"
              /\ DirectReturn(i, DirectErrorResult(req, <<"EACCES", "open", req.sourcePath>>))
              /\ UNCHANGED dataContent
           \/ /\ content.k # "missing"
              /\ req.name # "extract_i18n"
              /\ DirectReturn(i, DirectInvalidToolResult(req))
              /\ UNCHANGED dataContent
           \/ /\ content.k # "missing"
              /\ req.name = "extract_i18n"
              /\ \E ast \in ParseOutcomes(content) :
                    IF ast = Throw
                    THEN /\ DirectReturn(i, DirectErrorResult(req, <<"SyntaxError", "parse", "">>))
                         /\ UNCHANGED dataContent
                    ELSE LET data == extractDataContent(ast)
                         IN  IF DirectIsEmptyExtraction(data)
                             THEN /\ DirectReturn(i, DirectNoDataResult(req))
                                  /\ UNCHANGED dataContent
                             ELSE /\ dataContent' = [dataContent EXCEPT ![i] = data]
                                  /\ pc' = [pc EXCEPT ![i] = "mkdir"]
                                  /\ UNCHANGED result
    /\ UNCHANGED <<files, env, runs, request, existingContent, mergedContent, before, writes>>

\* fs.mkdir(path.dirname(targetPath), { recursive: true })
DirectMkdir(i) ==
    /\ pc[i] = "mkdir"
    /\ \/ /\ pc' = [pc EXCEPT ![i] = "readTarget"]
          /\ UNCHANGED result
       \/ DirectReturn(i, DirectErrorResult(request[i],
                    <<"EACCES", "mkdir", pathDirname(request[i].targetPath)>>))
    /\ UNCHANGED <<files, env, runs, request, dataContent, existingContent,
                   mergedContent, before, writes>>

\* existingContent after the inner try/catch
DirectLoadExisting(content) ==
    IF content.k = "missing" THEN EmptyObject
    ELSE IF JSONparse(content)[1] THEN JSONparse(content)[2]
    ELSE EmptyObject

\* fs.readFile(targetPath), JSON.parse and mergeDeep
DirectReadTarget(i) ==
    /\ pc[i] = "readTarget"
    /\ LET existing == DirectLoadExisting(files[request[i].targetPath])
       IN  /\ existingContent' = [existingContent EXCEPT ![i] = existing]
           /\ mergedContent' = [mergedContent EXCEPT ![i] =
                                   mergeDeep(existing, dataContent[i])]
    /\ pc' = [pc EXCEPT ![i] = "writeTarget"]
    /\ UNCHANGED <<files, env, runs, request, dataContent, result, before, writes>>

\* fs.writeFile(targetPath, JSON.stringify(mergedContent, null, 2))
DirectWriteTarget(i) ==
    /\ pc[i] = "writeTarget"
    /\ \/ /\ files' = [files EXCEPT ![request[i].targetPath] =
                          JsonText(JSONstringify(mergedContent[i]))]
          /\ writes' = [writes EXCEPT ![i] = Append(@, request[i].targetPath)]
          /\ pc' = [pc EXCEPT ![i] = "replaceSource"]
          /\ UNCHANGED result
       \/ /\ DirectReturn(i, DirectErrorResult(request[i], <<"EACCES", "open", request[i].targetPath>>))
          /\ UNCHANGED <<files, writes>>
    /\ UNCHANGED <<env, runs, request, dataContent, existingContent, mergedContent, before>>

\* process.env.DISABLE_SOURCE_REPLACEMENT === 'true'
DirectSourceReplacementDisabled(value) == value = "true"

\* the test of the environment, fs.writeFile(sourcePath, marker) and the
\* success message
DirectReplaceSource(i) ==
    /\ pc[i] = "replaceSource"
    /\ LET req == request[i]
           disableSourceReplacement == DirectSourceReplacementDisabled(env)
       IN  \/ /\ disableSourceReplacement
              /\ DirectReturn(i, DirectSuccessResult(req, dataContent[i], TRUE))
              /\ UNCHANGED <<files, writes>>
           \/ /\ ~disableSourceReplacement
              /\ files' = [files EXCEPT ![req.sourcePath] = MigrationMarker(req.targetPath)]
              /\ writes' = [writes EXCEPT ![i] = Append(@, req.sourcePath)]
              /\ DirectReturn(i, DirectSuccessResult(req, dataContent[i], FALSE))
           \/ /\ ~disableSourceReplacement
              /\ DirectReturn(i, DirectErrorResult(req, <<"EACCES", "open", req.sourcePath>>))
              /\ UNCHANGED <<files, writes>>
    /\ UNCHANGED <<env, runs, request, dataContent, existingContent, mergedContent, before>>

NextHandlers ==
    \/ \E name \in ToolNames, sourcePath \in Paths, targetPath \in Paths :
          pc["inv2"] = "idle" /\ Call("inv1", name, sourcePath, targetPath)
    \/ ReadSource("inv1")
    \/ Mkdir("inv1")
    \/ ReadTarget("inv1")
    \/ WriteTarget("inv1")
    \/ ReplaceSource("inv1")
    \/ Finish("inv1")
    \/ \E name \in ToolNames, sourcePath \in Paths, targetPath \in Paths :
          pc["inv1"] = "idle" /\ Call("inv2", name, sourcePath, targetPath)
    \/ DirectReadSource("inv2")
    \/ DirectMkdir("inv2")
    \/ DirectReadTarget("inv2")
    \/ DirectWriteTarget("inv2")
    \/ DirectReplaceSource("inv2")
    \/ Finish("inv2")
    \/ \E value \in EnvValues : SetEnv(value)

SpecHandlers == InitConc /\ [][NextHandlers]_vars

(***************************************************************************)
(* Properties                                                              *)
(***************************************************************************)
SeqRange(seq) == { seq[j] : j \in DOMAIN seq }

\* invocation i has just written the catalog
CatalogWritten(i) == pc[i] = "replaceSource"
\* the document in the catalog file of invocation i
WrittenCatalog(i) == files[request[i].targetPath].v
\* invocation i has returned res and nothing has happened since
Returned(i) == pc[i] = "done"

\* the merge of the catalog contract: every key of both sides, incoming
\* winning on conflicts, two mappings under one key merged recursively
RECURSIVE RecursiveMerge(_, _)
RecursiveMerge(existing, incoming) ==
    IF isObject(existing) /\ isObject(incoming)
    THEN JsObject([key \in (DOMAIN existing.v) \cup (DOMAIN incoming.v) |->
            IF key \notin DOMAIN incoming.v THEN existing.v[key]
            ELSE IF key \notin DOMAIN existing.v THEN incoming.v[key]
            ELSE RecursiveMerge(existing.v[key], incoming.v[key])])
    ELSE incoming

\* C1: in the catalog extract_i18n writes, a key that holds a mapping on both
\* sides holds the recursive merge of the two mappings.
C1_NestedMappingsMerged ==
    \A i \in Invocations :
        CatalogWritten(i) =>
            \A key \in ObjectKeys(existingContent[i]) \cap ObjectKeys(dataContent[i]) :
                (isObject(existingContent[i].v[key]) /\ isObject(dataContent[i].v[key]))
                => WrittenCatalog(i).v[key] =
                      RecursiveMerge(existingContent[i].v[key], dataContent[i].v[key])

\* C2: in the catalog extract_i18n writes, a key of incoming whose two sides
\* are not both mappings holds exactly incoming's value.
C2_IncomingReplaces ==
    \A i \in Invocations :
        CatalogWritten(i) =>
            \A key \in ObjectKeys(dataContent[i]) :
                ~(/\ key \in ObjectKeys(existingContent[i])
                  /\ isObject(existingContent[i].v[key])
                  /\ isObject(dataContent[i].v[key]))
                => /\ key \in ObjectKeys(WrittenCatalog(i))
                   /\ WrittenCatalog(i).v[key] = dataContent[i].v[key]

\* C3: merging an incoming mapping whose entries are all in the catalog with
\* equal values writes a catalog equal to the one that was read.
C3_MergeIdempotent ==
    \A i \in Invocations :
        (/\ CatalogWritten(i)
         /\ isObject(existingContent[i])
         /\ \A key \in ObjectKeys(dataContent[i]) :
               /\ key \in ObjectKeys(existingContent[i])
               /\ existingContent[i].v[key] = dataContent[i].v[key])
        => WrittenCatalog(i) = existingContent[i]

TranslationKeys(ast) ==
    { fullKeyOf(namespacePass(ast.v.calls, ""), ast.v.calls[j].v.arguments[1].v) :
        j \in { n \in DOMAIN ast.v.calls : IsCallOf(ast.v.calls[n], "t") } }

\* the mapping the default export of a file gives, {} when none qualifies
ExportedMapping(ast) ==
    IF exportVisitor(ast.v.exports, ast.v.bindings) = NoData THEN EmptyObject
    ELSE exportVisitor(ast.v.exports, ast.v.bindings)

\* the file system and the writes of invocation i show that it wrote nothing
WroteNothing(i) == files = before[i] /\ writes[i] = <<>>

\* the File node the source file of invocation i held when it was called
SourceAst(i) == before[i][request[i].sourcePath].v
HadSource(i) == before[i][request[i].sourcePath].k = "source"

\* C5: when extraction yields an empty mapping, extract_i18n returns the
\* 'No data extracted' result and writes neither the catalog nor the source,
\* whatever DISABLE_SOURCE_REPLACEMENT is.
C5_NoDataWritesNothing ==
    \A i \in Invocations :
        /\ (/\ pc[i] \notin {"idle", "readSource"}
            /\ request[i].name = "extract_i18n"
            /\ HadSource(i)
            /\ ObjectKeys(ExportedMapping(SourceAst(i))) = {}
            /\ TranslationKeys(SourceAst(i)) = {})
           => /\ Returned(i)
              /\ result[i] \in { NoDataResult(request[i]),
                    ErrorResult(request[i], <<"EACCES", "open", request[i].sourcePath>>) }
              /\ WroteNothing(i)
        /\ (Returned(i) /\ result[i].kind = "nodata")
           => /\ WroteNothing(i)
              /\ result[i].source = request[i].sourcePath
              /\ result[i].target = request[i].targetPath

C5_Witness ==
    \E i \in Invocations :
        /\ Returned(i)
        /\ result[i].kind = "nodata"
        /\ env = "true"
        /\ HadSource(i)
        /\ SourceAst(i).v.exports # <<>>
        /\ before[i][request[i].targetPath].k = "missing"
        /\ files[request[i].targetPath].k = "missing"

\* C6 as stated: the marker is written only after a non-empty extraction with
\* replacement not disabled; with DISABLE_SOURCE_REPLACEMENT 'true' the source
\* file is as it was, the catalog is written and the summary does not say
\* the source was replaced.
C6_SourceUnchangedWhenDisabled ==
    \A i \in Invocations :
        /\ writes[i] \notin { <<>>, <<request[i].targetPath>> }
           => /\ writes[i] = <<request[i].targetPath, request[i].sourcePath>>
              /\ files[request[i].sourcePath] = MigrationMarker(request[i].targetPath)
              /\ ObjectKeys(dataContent[i]) # {}
              /\ env # "true"
        /\ (Returned(i) /\ env = "true")
           => /\ files[request[i].sourcePath] = before[i][request[i].sourcePath]
              /\ result[i].kind = "success"
                 => /\ files[request[i].targetPath] =
                          JsonText(JSONstringify(mergedContent[i]))
                    /\ ~result[i].replaced

\* C6 amended: as C6, the source file being as it was when the target path is
\* not the source path; the only file written with replacement disabled is
\* the catalog.
C6_SourceNotReplacedWhenDisabled ==
    \A i \in Invocations :
        /\ writes[i] \notin { <<>>, <<request[i].targetPath>> }
           => /\ writes[i] = <<request[i].targetPath, request[i].sourcePath>>
              /\ files[request[i].sourcePath] = MigrationMarker(request[i].targetPath)
              /\ ObjectKeys(dataContent[i]) # {}
              /\ env # "true"
        /\ (Returned(i) /\ env = "true")
           => /\ writes[i] \in { <<>>, <<request[i].targetPath>> }
              /\ request[i].sourcePath # request[i].targetPath
                 => files[request[i].sourcePath] = before[i][request[i].sourcePath]
              /\ result[i].kind = "success"
                 => /\ files[request[i].targetPath] =
                          JsonText(JSONstringify(mergedContent[i]))
                    /\ ~result[i].replaced

C6_Witness ==
    \E i \in Invocations :
        /\ Returned(i)
        /\ env = "true"
        /\ result[i].kind = "success"
        /\ request[i].sourcePath # request[i].targetPath
        /\ HadSource(i)
        /\ files[request[i].targetPath] # before[i][request[i].targetPath]

\* C7: when the source file cannot be read, extract_i18n returns 'Error
\* processing <sourcePath>: <I/O reason>' and writes no file.
C7_UnreadableSourceFails ==
    \A i \in Invocations :
        /\ (/\ pc[i] \notin {"idle", "readSource"}
            /\ before[i][request[i].sourcePath].k = "missing")
           => /\ Returned(i)
              /\ result[i].kind = "error"
              /\ result[i].source = request[i].sourcePath
              /\ result[i].message = <<"ENOENT", "open", request[i].sourcePath>>
              /\ WroteNothing(i)
        /\ (/\ Returned(i)
            /\ result[i].kind = "error"
            /\ result[i].message[2] = "open"
            /\ dataContent[i] = Undefined)
           => /\ result[i].source = request[i].sourcePath
              /\ result[i].message[1] \in {"ENOENT", "EACCES"}
              /\ result[i].message[3] = request[i].sourcePath
              /\ WroteNothing(i)

C7_Witness ==
    \E i \in Invocations :
        /\ Returned(i)
        /\ before[i][request[i].sourcePath].k = "missing"
        /\ request[i].sourcePath # request[i].targetPath
        /\ result[i].kind = "error"

\* C8: when the catalog file is missing or holds no valid JSON, the existing
\* catalog is taken as empty, the catalog written is the extracted mapping
\* alone, and no failure result comes from reading or parsing the catalog.
C8_BadCatalogStartsEmpty ==
    \A i \in Invocations :
        (dataContent[i] # Undefined /\ before[i][request[i].targetPath].k # "json")
        => /\ pc[i] \in {"writeTarget", "replaceSource"}
              => existingContent[i] = EmptyObject
           /\ CatalogWritten(i)
              => files[request[i].targetPath] = JsonText(dataContent[i])
           /\ Returned(i)
              => \/ result[i].kind = "success"
                 \/ /\ result[i].kind = "error"
                    /\ result[i].message[1] = "EACCES"
                    /\ \/ result[i].message[2] = "mkdir"
                       \/ existingContent[i] = EmptyObject

C8_Witness ==
    \E i \in Invocations :
        /\ Returned(i)
        /\ result[i].kind = "success"
        /\ before[i][request[i].targetPath].k = "garbage"
        /\ \E key \in ObjectKeys(dataContent[i]) : isObject(dataContent[i].v[key])

\* C9: when the catalog has been written and the source rewrite fails, the
\* result says that the catalog was written.
C9_PartialSuccessStated ==
    \A i \in Invocations :
        (/\ Returned(i)
         /\ request[i].sourcePath # request[i].targetPath
         /\ writes[i] = <<request[i].targetPath>>
         /\ result[i].kind # "success")
        => result[i].target = pathResolve(request[i].targetPath)

\* C10: for a source with at least one t('<string literal>') call, the
\* extracted mapping is the call-site mapping: its keys are the keys of the
\* calls, and the catalog gains no key of the default export.
C10_CallSitesTakePrecedence ==
    \A i \in Invocations :
        (/\ pc[i] \notin {"idle", "readSource"}
         /\ request[i].name = "extract_i18n"
         /\ HadSource(i)
         /\ TranslationKeys(SourceAst(i)) # {})
        => /\ dataContent[i] # Undefined
              => /\ ObjectKeys(dataContent[i]) = TranslationKeys(SourceAst(i))
                 /\ \A key \in ObjectKeys(dataContent[i]) :
                       dataContent[i].v[key].k = "string"
           /\ dataContent[i] = Undefined
              => result[i] = ErrorResult(request[i],
                                <<"EACCES", "open", request[i].sourcePath>>)
           /\ CatalogWritten(i)
              => ObjectKeys(WrittenCatalog(i)) \subseteq
                    ObjectKeys(existingContent[i]) \cup TranslationKeys(SourceAst(i))

C10_Witness ==
    \E i \in Invocations :
        /\ CatalogWritten(i)
        /\ HadSource(i)
        /\ TranslationKeys(SourceAst(i)) # {}
        /\ ObjectKeys(ExportedMapping(SourceAst(i)))
              \ ObjectKeys(WrittenCatalog(i)) # {}

(***************************************************************************)
(* The extraction, read off the handler: what ReadSource made of the       *)
(* source file                                                             *)
(***************************************************************************)
\* invocation i has parsed its source file and extracted from it
Scanned(i) ==
    /\ pc[i] \notin {"idle", "readSource"}
    /\ HadSource(i)
    /\ \/ dataContent[i] # Undefined
       \/ Returned(i) /\ result[i].kind = "nodata"
\* the mapping it extracted
Extracted(i) == IF dataContent[i] # Undefined THEN dataContent[i] ELSE EmptyObject

\* the positions of the t('<string literal>') calls and of the
\* useTranslations('<string literal>') calls of a file, in traversal order
TCalls(ast) == { j \in DOMAIN ast.v.calls : IsCallOf(ast.v.calls[j], "t") }
NamespaceCalls(ast) == { j \in DOMAIN ast.v.calls : IsCallOf(ast.v.calls[j], "useTranslations") }
Last(S) == CHOOSE j \in S : \A m \in S : m <= j
LocalKey(call) == call.v.arguments[1].v
\* the string of the last useTranslations call
LastNamespace(ast) == LocalKey(ast.v.calls[Last(NamespaceCalls(ast))])

\* C11 as stated: the keys of the call-site mapping are the keys of the t()
\* calls, each prefixed with the string of the last useTranslations call and
\* '.' when the file has such a call, and bare otherwise.
C11_NamespacePrefixesEveryKey ==
    \A i \in Invocations :
        (Scanned(i) /\ TCalls(SourceAst(i)) # {})
        => ObjectKeys(Extracted(i)) =
              { IF NamespaceCalls(SourceAst(i)) = {}
                THEN LocalKey(SourceAst(i).v.calls[j])
                ELSE LastNamespace(SourceAst(i)) \o "." \o LocalKey(SourceAst(i).v.calls[j]) :
                j \in TCalls(SourceAst(i)) }

\* C11 amended: as C11, the prefix being applied when the string of the last
\* useTranslations call is not empty; with no such call or an empty string
\* the keys are bare.
C11_NonEmptyNamespacePrefixesEveryKey ==
    \A i \in Invocations :
        (Scanned(i) /\ TCalls(SourceAst(i)) # {})
        => ObjectKeys(Extracted(i)) =
              { IF NamespaceCalls(SourceAst(i)) = {} \/ LastNamespace(SourceAst(i)) = ""
                THEN LocalKey(SourceAst(i).v.calls[j])
                ELSE LastNamespace(SourceAst(i)) \o "." \o LocalKey(SourceAst(i).v.calls[j]) :
                j \in TCalls(SourceAst(i)) }

\* a t() call visited before two useTranslations calls of different strings
C11_Witness ==
    \E i \in Invocations :
        /\ Scanned(i)
        /\ \E j \in TCalls(SourceAst(i)) :
              \E m \in NamespaceCalls(SourceAst(i)), n \in NamespaceCalls(SourceAst(i)) :
                 /\ j < m /\ m < n
                 /\ LocalKey(SourceAst(i).v.calls[m]) \notin {"", LastNamespace(SourceAst(i))}
        /\ LastNamespace(SourceAst(i)) # ""
        /\ \E key \in ObjectKeys(Extracted(i)) : key = LastNamespace(SourceAst(i)) \o ".title"

\* the key call j of a file stands for
CallKey(ast, j) ==
    IF NamespaceCalls(ast) = {} \/ LastNamespace(ast) = ""
    THEN LocalKey(ast.v.calls[j])
    ELSE LastNamespace(ast) \o "." \o LocalKey(ast.v.calls[j])
\* call is the left operand of `call || '<string literal>'`
IsLeftOfOrString(call) ==
    /\ call.v.parent.k = "LogicalExpression"
    /\ call.v.parent.v.operator = "||"
    /\ call.v.parent.v.left
    /\ call.v.parent.v.right.k = "StringLiteral"
\* the t() calls of a file that are alone with their key
LoneTCalls(ast) ==
    { j \in TCalls(ast) :
        \A m \in TCalls(ast) : LocalKey(ast.v.calls[m]) = LocalKey(ast.v.calls[j]) => m = j }

PlainProperties(node) ==
    { j \in DOMAIN node.v :
        /\ node.v[j].k = "ObjectProperty"
        /\ ~node.v[j].v.computed
        /\ node.v[j].v.key.k \in {"Identifier", "StringLiteral"} }

\* a literal of the supported kinds only: string, number, boolean, null, and
\* object and array literals of such
RECURSIVE SupportedLiteral(_)
SupportedLiteral(node) ==
    IF node.k \in {"StringLiteral", "NumericLiteral", "BooleanLiteral", "NullLiteral"} THEN TRUE
    ELSE IF node.k = "ArrayExpression"
    THEN \A j \in DOMAIN node.v : node.v[j] # Hole /\ SupportedLiteral(node.v[j])
    ELSE IF node.k = "ObjectExpression"
    THEN /\ PlainProperties(node) = DOMAIN node.v
         /\ \A j \in DOMAIN node.v : SupportedLiteral(node.v[j].v.value)
    ELSE FALSE

\* the JSON document a supported literal denotes
RECURSIVE LiteralValue(_)
LiteralValue(node) ==
    IF node.k = "StringLiteral" THEN JsString(node.v)
    ELSE IF node.k = "NumericLiteral" THEN JsNumber(node.v)
    ELSE IF node.k = "BooleanLiteral" THEN JsBoolean(node.v)
    ELSE IF node.k = "ArrayExpression"
    THEN JsArray([j \in DOMAIN node.v |-> LiteralValue(node.v[j])])
    ELSE IF node.k = "ObjectExpression"
    THEN JsObject([key \in { node.v[j].v.key.v : j \in DOMAIN node.v } |->
            LiteralValue(node.v[Last({ j \in DOMAIN node.v : node.v[j].v.key.v = key })].v.value)])
    ELSE JsNull

\* the object literal a file exports by default and nothing else
ExportsOnly(ast, node) == ast.v.calls = <<>> /\ ast.v.exports = <<node>>

\* C13: the catalog written from `export default <object literal>` into a
\* catalog that was not there, the literal holding supported literal kinds
\* only, is the JSON document the literal denotes.
C13_RoundTrip ==
    \A i \in Invocations :
        (/\ CatalogWritten(i)
         /\ HadSource(i)
         /\ before[i][request[i].targetPath].k = "missing"
         /\ \E node \in SeqRange(SourceAst(i).v.exports) :
               ExportsOnly(SourceAst(i), node) /\ SupportedLiteral(node))
        => files[request[i].targetPath] = JsonText(LiteralValue(SourceAst(i).v.exports[1]))

\* `export default { items: <array literal> }` and nothing else
ExportsItems(ast, array) == ExportsOnly(ast, ObjectExpression(<<Prop("items", array)>>))

\* ["a", {b:1}, third, null, ["c","d"], null, null]
ArrayExampleValue(third) ==
    JsArray(<<JsString("a"), JsObject([b |-> JsNumber(1)]), third, JsNull,
              JsArray(<<JsString("c"), JsString("d")>>), JsNull, JsNull>>)

\* C14 as stated: [ "a", {b:1}, "t {{x}}", null, ["c","d"], undefined, void 0 ]
\* normalizes to ["a", {b:1}, "t {{}}", null, ["c","d"], null, null].
C14_ArrayExample ==
    \A i \in Invocations :
        (Scanned(i) /\ ExportsItems(SourceAst(i), ArrayExample(StringLiteral("t {{x}}"))))
        => Extracted(i).v["items"] = ArrayExampleValue(JsString("t {{}}"))

\* C14 amended: the array normalizes to
\* ["a", {b:1}, "t {{x}}", null, ["c","d"], null, null], the string literal
\* kept as written; with the template literal `t ${x}` in its place the third
\* element is "t {{}}".
C14_ArrayExampleVerbatim ==
    \A i \in Invocations :
        /\ (Scanned(i) /\ ExportsItems(SourceAst(i), ArrayExample(StringLiteral("t {{x}}"))))
           => Extracted(i).v["items"] = ArrayExampleValue(JsString("t {{x}}"))
        /\ (Scanned(i) /\ ExportsItems(SourceAst(i), ArrayExample(TemplateLiteral(<<"t ", "">>))))
           => Extracted(i).v["items"] = ArrayExampleValue(JsString("t {{}}"))

C14_Witness ==
    \E i \in Invocations :
        /\ CatalogWritten(i)
        /\ HadSource(i)
        /\ ExportsItems(SourceAst(i), ArrayExample(StringLiteral("t {{x}}")))
        /\ WrittenCatalog(i) = JsObject([items |-> ArrayExampleValue(JsString("t {{x}}"))])

\* declaration is an object literal, or an identifier the file binds to a
\* variable declarator whose initializer is an object literal
IsMappingExport(ast, declaration) ==
    \/ declaration.k = "ObjectExpression"
    \/ /\ declaration.k = "Identifier"
       /\ declaration.v \in DOMAIN ast.v.bindings
       /\ ast.v.bindings[declaration.v].k = "VariableDeclarator"
       /\ ast.v.bindings[declaration.v].v.k = "ObjectExpression"

\* C15: for a file without t() calls the extracted mapping is non-empty only
\* when a default export is an object literal, directly or through an
\* identifier bound by a variable declarator of the file to an object literal;
\* otherwise the extraction is empty and nothing is written.
C15_OnlyMappingsExported ==
    \A i \in Invocations :
        (Scanned(i) /\ TCalls(SourceAst(i)) = {})
        => /\ ObjectKeys(Extracted(i)) # {}
              => \E j \in DOMAIN SourceAst(i).v.exports :
                    IsMappingExport(SourceAst(i), SourceAst(i).v.exports[j])
           /\ (\A j \in DOMAIN SourceAst(i).v.exports :
                  ~IsMappingExport(SourceAst(i), SourceAst(i).v.exports[j]))
              => /\ dataContent[i] = Undefined
                 /\ result[i] = NoDataResult(request[i])
                 /\ WroteNothing(i)

\* `export default data` with data bound to an array literal
C15_Witness ==
    \E i \in Invocations :
        /\ Scanned(i)
        /\ SourceAst(i).v.exports = <<Identifier("data")>>
        /\ "data" \in DOMAIN SourceAst(i).v.bindings
        /\ SourceAst(i).v.bindings["data"].k = "VariableDeclarator"
        /\ SourceAst(i).v.bindings["data"].v.k = "ArrayExpression"
        /\ result[i].kind = "nodata"

\* C16: two invocations on different sources and one catalog can both return
\* success; the catalog then holds the merge one of them computed from what
\* it had read, whatever the other wrote in between.
C16_LastWriterWins ==
    \A i \in Invocations, j \in Invocations :
        (/\ i # j
         /\ Returned(i) /\ result[i].kind = "success"
         /\ Returned(j) /\ result[j].kind = "success"
         /\ request[i].targetPath = request[j].targetPath
         /\ request[i].sourcePath # request[j].sourcePath
         /\ request[i].targetPath \notin {request[i].sourcePath, request[j].sourcePath})
        => files[request[i].targetPath] \in
              { JsonText(JSONstringify(mergedContent[i])),
                JsonText(JSONstringify(mergedContent[j])) }

\* both have returned success and the catalog lacks a key the other extracted
C16_Witness ==
    \E i \in Invocations, j \in Invocations :
        /\ i # j
        /\ Returned(i) /\ result[i].kind = "success"
        /\ Returned(j) /\ result[j].kind = "success"
        /\ request[i].targetPath = request[j].targetPath
        /\ request[i].sourcePath # request[j].sourcePath
        /\ request[i].targetPath \notin {request[i].sourcePath, request[j].sourcePath}
        /\ files[request[i].targetPath] = JsonText(JSONstringify(mergedContent[i]))
        /\ ObjectKeys(dataContent[j]) \ ObjectKeys(files[request[i].targetPath].v) # {}

\* the keys of the complete mapping a file gives: those of its t() calls, or
\* with no such call those of its default export
CompleteKeys(ast) ==
    IF TCalls(ast) # {} THEN { CallKey(ast, j) : j \in TCalls(ast) }
    ELSE ObjectKeys(ExportedMapping(ast))

\* C17: an invocation writes the catalog at most once, as its first write and
\* after the merge has been computed; the catalog it writes has every key of
\* the complete extracted mapping, with the extracted value where that is not
\* a mapping, and every key of the catalog it read.
C17_CatalogWrittenOnceAfterMerge ==
    \A i \in Invocations :
        /\ writes[i] \in { <<>>, <<request[i].targetPath>>,
                           <<request[i].targetPath, request[i].sourcePath>> }
        /\ writes[i] # <<>>
           => /\ pc[i] \in {"replaceSource", "done"}
              /\ mergedContent[i] # Undefined
              /\ existingContent[i] = LoadExisting(before[i][request[i].targetPath])
        /\ pc[i] \in {"readSource", "mkdir", "readTarget", "writeTarget"} => files = before[i]
        /\ (CatalogWritten(i) /\ HadSource(i))
           => /\ files[request[i].targetPath].k = "json"
              /\ ObjectKeys(dataContent[i]) = CompleteKeys(SourceAst(i))
              /\ CompleteKeys(SourceAst(i)) \subseteq ObjectKeys(WrittenCatalog(i))
              /\ ObjectKeys(existingContent[i]) \subseteq ObjectKeys(WrittenCatalog(i))
              /\ \A key \in ObjectKeys(dataContent[i]) :
                    ~isObject(dataContent[i].v[key])
                    => WrittenCatalog(i).v[key] = dataContent[i].v[key]

\* a catalog written from a mapping of two keys over a catalog that has one
\* of them
C17_Witness ==
    \E i \in Invocations :
        /\ CatalogWritten(i)
        /\ HadSource(i)
        /\ request[i].sourcePath # request[i].targetPath
        /\ Cardinality(ObjectKeys(dataContent[i])) = 2
        /\ ObjectKeys(existingContent[i]) \cap ObjectKeys(dataContent[i]) # {}
        /\ ObjectKeys(dataContent[i]) \ ObjectKeys(existingContent[i]) # {}
        /\ WrittenCatalog(i) # existingContent[i]

\* the file is `export default <object literal>` and nothing else
ExportsObjectLiteral(ast) ==
    /\ ast.v.calls = <<>>
    /\ Len(ast.v.exports) = 1
    /\ ast.v.exports[1].k = "ObjectExpression"

\* C18: the mapping extracted from `export default <object literal>` has no
\* key from a spread element, a method or a computed property: its keys are
\* keys of plain properties; and a nested object literal with no plain
\* property gives an empty mapping under its key.
C18_OnlyPlainPropertiesGiveKeys ==
    \A i \in Invocations :
        (Scanned(i) /\ ExportsObjectLiteral(SourceAst(i)))
        => LET node == SourceAst(i).v.exports[1]
           IN  /\ ObjectKeys(Extracted(i)) \subseteq
                     { node.v[j].v.key.v : j \in PlainProperties(node) }
               /\ \A j \in PlainProperties(node) :
                     (/\ node.v[j].v.key.v # ""
                      /\ node.v[j].v.value.k = "ObjectExpression"
                      /\ PlainProperties(node.v[j].v.value) = {}
                      /\ \A m \in PlainProperties(node) : m <= j)
                     => Extracted(i).v[node.v[j].v.key.v] = EmptyObject

\* the file is `export default { items: <array literal> }` and nothing else
ExportsArray(ast) ==
    /\ ExportsObjectLiteral(ast)
    /\ Len(ast.v.exports[1].v) = 1
    /\ ast.v.exports[1].v[1].k = "ObjectProperty"
    /\ ast.v.exports[1].v[1].v.key = Identifier("items")
    /\ ~ast.v.exports[1].v[1].v.computed
    /\ ast.v.exports[1].v[1].v.value.k = "ArrayExpression"
ExportedArray(ast) == ast.v.exports[1].v[1].v.value

\* value is what the element of an array literal stands for: the value of a
\* string, number or boolean literal, a string for a template literal, a list
\* of as many slots for an array literal, a mapping for an object literal,
\* and null for a hole and every other node
IsSlotOf(value, element) ==
    IF element = Hole THEN value = JsNull
    ELSE IF element.k = "StringLiteral" THEN value = JsString(element.v)
    ELSE IF element.k = "NumericLiteral" THEN value = JsNumber(element.v)
    ELSE IF element.k = "BooleanLiteral" THEN value = JsBoolean(element.v)
    ELSE IF element.k = "TemplateLiteral" THEN value.k = "string"
    ELSE IF element.k = "ArrayExpression"
    THEN value.k = "array" /\ Len(value.v) = Len(element.v)
    ELSE IF element.k = "ObjectExpression" THEN value.k = "object"
    ELSE value = JsNull

\* C19: the list extracted from an array literal has one slot per element
\* position, in order: holes, null, undefined, void 0 and unsupported nodes
\* give null in their own slot, and the empty literal gives the empty list.
C19_ArraySlotsAligned ==
    \A i \in Invocations :
        (Scanned(i) /\ ExportsArray(SourceAst(i)))
        => LET elements == ExportedArray(SourceAst(i)).v
               list == Extracted(i).v["items"]
           IN  /\ list.k = "array"
               /\ Len(list.v) = Len(elements)
               /\ \A j \in DOMAIN elements : IsSlotOf(list.v[j], elements[j])
               /\ CatalogWritten(i) => WrittenCatalog(i).v["items"] = list

\* [ , "a" ] written to the catalog as [null, "a"]
C19_Witness ==
    \E i \in Invocations :
        /\ CatalogWritten(i)
        /\ HadSource(i)
        /\ ExportsArray(SourceAst(i))
        /\ ExportedArray(SourceAst(i)).v = <<Hole, StringLiteral("a")>>
        /\ WrittenCatalog(i).v["items"] = JsArray(<<JsNull, JsString("a")>>)

\* the t() calls of a file with the key of call j
SameKeyCalls(ast, j) ==
    { m \in TCalls(ast) : LocalKey(ast.v.calls[m]) = LocalKey(ast.v.calls[j]) }

\* C20: the call-site mapping has one entry per distinct key of the t() calls,
\* and the value of an entry is the default text of the last call with that
\* key: the empty string when that call has none, whatever the earlier calls
\* had.
C20_LastCallWins ==
    \A i \in Invocations :
        (Scanned(i) /\ TCalls(SourceAst(i)) # {})
        => LET ast == SourceAst(i)
           IN  /\ Cardinality(ObjectKeys(Extracted(i))) =
                     Cardinality({ LocalKey(ast.v.calls[j]) : j \in TCalls(ast) })
               /\ \A j \in TCalls(ast) :
                     LET last == ast.v.calls[Last(SameKeyCalls(ast, j))]
                     IN  Extracted(i).v[CallKey(ast, j)] =
                            IF IsLeftOfOrString(last)
                            THEN JsString(last.v.parent.v.right.v)
                            ELSE JsString("")

\* t('title') || 'Title' followed by a t('title') without a default
C20_Witness ==
    \E i \in Invocations :
        /\ Scanned(i)
        /\ \E j \in TCalls(SourceAst(i)) :
              /\ IsLeftOfOrString(SourceAst(i).v.calls[j])
              /\ Last(SameKeyCalls(SourceAst(i), j)) > j
              /\ ~IsLeftOfOrString(SourceAst(i).v.calls[Last(SameKeyCalls(SourceAst(i), j))])
              /\ Extracted(i).v[CallKey(SourceAst(i), j)] = JsString("")

\* C21: the source file holds the marker of an invocation only when that
\* invocation has written the catalog first; when creating the target
\* directory or writing the catalog fails, a failure result is returned and
\* no file has changed.
C21_MarkerAfterCatalogWrite ==
    \A i \in Invocations :
        /\ (/\ pc[i] # "idle"
            /\ request[i].sourcePath # request[i].targetPath
            /\ files[request[i].sourcePath] # before[i][request[i].sourcePath])
           => /\ writes[i] = <<request[i].targetPath, request[i].sourcePath>>
              /\ files[request[i].sourcePath] = MigrationMarker(request[i].targetPath)
              /\ files[request[i].targetPath] = JsonText(JSONstringify(mergedContent[i]))
        /\ (pc[i] # "idle" /\ Len(writes[i]) = 2)
           => /\ writes[i][1] = request[i].targetPath
              /\ writes[i][2] = request[i].sourcePath
              /\ files[request[i].sourcePath] = MigrationMarker(request[i].targetPath)
        /\ (Returned(i) /\ dataContent[i] # Undefined /\ writes[i] = <<>>)
           => /\ result[i].kind = "error"
              /\ result[i].source = request[i].sourcePath
              /\ result[i].message \in
                    { <<"EACCES", "mkdir", pathDirname(request[i].targetPath)>>,
                      <<"EACCES", "open", request[i].targetPath>> }
              /\ files = before[i]

\* the catalog write has failed on a source file that was read and held data
C21_Witness ==
    \E i \in Invocations :
        /\ Returned(i)
        /\ mergedContent[i] # Undefined
        /\ writes[i] = <<>>
        /\ HadSource(i)
        /\ request[i].sourcePath # request[i].targetPath
        /\ result[i].kind = "error"
        /\ files[request[i].sourcePath] = before[i][request[i].sourcePath]

\* content is the text of a JSON mapping
IsJsonMapping(content) == content.k = "json" /\ isObject(content.v)

C23_HandlersEquivalent ==
    [][\A i \in Invocations :
          /\ ReadSource(i) <=> DirectReadSource(i)
          /\ Mkdir(i) <=> DirectMkdir(i)
          /\ ReadTarget(i) <=> DirectReadTarget(i)
          /\ WriteTarget(i) <=> DirectWriteTarget(i)
          /\ ReplaceSource(i) <=> DirectReplaceSource(i)]_vars

\* the handler of getCallToolHandler has written the catalog and the marker
\* and returned success
C23_Witness ==
    /\ Returned("inv2")
    /\ result["inv2"].kind = "success"
    /\ result["inv2"].replaced
    /\ writes["inv2"] = <<request["inv2"].targetPath, request["inv2"].sourcePath>>
    /\ request["inv2"].sourcePath # request["inv2"].targetPath

====
